---- MODULE Spec2Model ----
(***************************************************************************)
(* Model of src/render.rs: the offscreen canvas session (render_ctx), the  *)
(* two-panel departure board (stops_png with its draw_data closure) and    *)
(* the error board (error_png).                                            *)
(*                                                                         *)
(* The canvas is modelled by the list of drawing commands issued on it, in *)
(* order, each with its coordinates, text and paint.  A run of the model   *)
(* is a caller that invokes the same render function with the same         *)
(* arguments again and again; `prev` keeps what the previous call did.     *)
(***************************************************************************)
EXTENDS Integers, Sequences, FiniteSets, TLC

VARIABLES
    fn,             \* the function the caller invokes: "stops_png" | "error_png"
    render_target,  \* "Kindle" | "Other"
    stop_data,      \* agency -> direction -> sequence of [line, upcoming]
    config_file,    \* [layout |-> [width, height, left, right]]
    error,          \* eyre::Report as its cause chain (sequence of messages)
    no_glyphs,      \* texts for which TextBlob::new yields None on this platform
    faults,         \* library calls that fail on this platform
    hash_seed,      \* iteration order of the HashMaps of this call's stop_data
    pc,             \* position of the running call
    panel,          \* "left" | "right": the loop of the closure being run
    sidx,           \* 1-based index of the section of the panel being drawn
    idx,            \* 0-based index of the line being drawn (enumerate())
    y,              \* the vertical cursor of the closure
    y0,             \* ghost: the cursor on entry of the current section
    drawn0,         \* ghost: the number of commands issued before that entry
    bitmap,         \* the bitmap drawn on: None or [width, height]
    canvas,         \* the drawing commands issued on the canvas so far
    warnings,       \* tracing::warn! events of this call
    final_image,    \* None or the image handed to the encoder
    result,         \* None, Ok(bytes) or Err(message)
    prev            \* None or what the previous call left behind

inputs == <<fn, render_target, stop_data, config_file, error, no_glyphs, faults>>
locals == <<pc, panel, sidx, idx, y, y0, drawn0, bitmap, canvas, warnings, final_image, result>>
vars == <<inputs, hash_seed, locals, prev>>

----------------------------------------------------------------------------
(* Bounds of the model                                                     *)

MaxLines == 2       \* lines per (agency, direction)
MaxSections == 2    \* sections per panel
MaxUpcoming == 2    \* Upcoming values per line
MaxChain == 3       \* messages in an error's cause chain

----------------------------------------------------------------------------
(* Option and Result                                                       *)

None == [some |-> FALSE]
Some(v) == [some |-> TRUE, val |-> v]
Ok(v) == [ok |-> TRUE, val |-> v]
Err(m) == [ok |-> FALSE, err |-> m]

\* The keys of a map in the order its iterator yields them under hash_seed.
RECURSIVE KeysInOrder(_)
KeysInOrder(keys) ==
    IF keys = {} THEN <<>>
    ELSE LET k == CHOOSE k \in keys : TRUE
         IN  IF hash_seed = 0 THEN <<k>> \o KeysInOrder(keys \ {k})
             ELSE KeysInOrder(keys \ {k}) \o <<k>>

\* Mutant of Get: the entry the map's iterator yields first.
GetFirstIterated(map, key) ==
    IF key \in DOMAIN map THEN [some |-> TRUE, val |-> map[KeysInOrder(DOMAIN map)[1]]]
    ELSE [some |-> FALSE]

Get(map, key) == IF key \in DOMAIN map THEN Some(map[key]) ELSE None

----------------------------------------------------------------------------
(* Program constants                                                       *)

TOP_MARGIN == 38
LEFT_MARGIN == 20
SEPARATOR_INSET == 40
SEPARATOR_DROP == 15
LINE_ADVANCE == 40
LAST_LINE_ADVANCE == 15
SECTION_GAP == 28
ERROR_X == 100
ERROR_HEADLINE_Y == 200
ERROR_CHAIN_Y == 250
ERROR_CHAIN_ADVANCE == 20
QUARTER_TURN == 90

black_paint == "black"
grey_paint == "grey"
font == [style |-> "bold", size |-> 24]
big_font == [style |-> "normal", size |-> 36]
small_font == [style |-> "normal", size |-> 12]

----------------------------------------------------------------------------
(* The graphics library, as far as the code depends on it                  *)

\* TextBlob::new(text, font): None when the text cannot be shaped.
TextBlobNew(text, f) ==
    IF text \in no_glyphs THEN None ELSE Some([text |-> text, font |-> f])

\* blob.bounds().width() as i32: the measured width of the shaped text,
\* abstracted as glyph count times font size.
BoundsWidth(blob) == Len(blob.text) * blob.font.size

DrawLine(from, to, paint) ==
    [op |-> "line", from |-> from, to |-> to, paint |-> paint]
DrawOval(blob, at, paint) ==
    [op |-> "oval", bounds_of |-> blob, at |-> at, paint |-> paint]
DrawTextBlob(blob, at, paint) ==
    [op |-> "text", blob |-> blob, at |-> at, paint |-> paint]
Clear == [op |-> "clear", color |-> "white"]

\* itertools::join over the Display of each item.
RECURSIVE Join(_, _)
Join(items, sep) ==
    IF Len(items) = 0 THEN ""
    ELSE IF Len(items) = 1 THEN ToString(Head(items))
    ELSE ToString(Head(items)) \o sep \o Join(Tail(items), sep)

\* Mutant of Minutes: the values in ascending order.
RECURSIVE Ascending(_)
Ascending(values) ==
    IF Len(values) = 0 THEN <<>>
    ELSE LET least == CHOOSE i \in 1..Len(values) :
                 \A j \in 1..Len(values) : values[i] <= values[j]
         IN  <<values[least]>> \o
             Ascending([j \in 1..(Len(values) - 1) |->
                 IF j < least THEN values[j] ELSE values[j + 1]])
MinutesSorted(upcoming) ==
    Ascending([i \in 1..Len(upcoming) |-> upcoming[i].minutes])

\* upcoming.into_iter().map(|t| t.minutes())
Minutes(upcoming) == [i \in 1..Len(upcoming) |-> upcoming[i].minutes]

\* let mins = ...join(", "); format!("{mins} min")
TimeText(upcoming) == Join(Minutes(upcoming), ", ") \o " min"

\* idx < (lines_len - 1), in usize: with lines_len = 0 the subtraction wraps
\* to usize::MAX in a release build, which is above every idx (a debug build
\* panics there instead).
NotLast(i, len) == IF len >= 1 THEN i < len - 1 ELSE TRUE

----------------------------------------------------------------------------
(* stops_png: the closure's view of its arguments                          *)

layout == config_file.layout
halfway == layout.width \div 2

Sections(p) == IF p = "left" THEN layout.left.sections ELSE layout.right.sections

\* The (x1, x2) the closure passes to draw_data for a panel.
XRange(p) == IF p = "left" THEN <<0, halfway>> ELSE <<halfway, layout.width>>

\* stop_data.get(&section.agency)
AgencyOf(s) == Get(stop_data, s.agency)

\* Mutant of LinesOf: a missing direction read as a direction without lines.
LinesOfOrEmpty(s) ==
    IF s.direction \in DOMAIN AgencyOf(s).val
    THEN Some(AgencyOf(s).val[s.direction])
    ELSE Some(<<>>)

\* agency.get(&section.direction), after the agency was found
LinesOf(s) == Get(AgencyOf(s).val, s.direction)

section == Sections(panel)[sidx]
lines == LinesOf(section).val
lines_len == Len(lines)
x1 == XRange(panel)[1]
x2 == XRange(panel)[2]

----------------------------------------------------------------------------
(* Calls                                                                   *)

HashSeeds == {0, 1}

Fresh ==
    /\ panel = "left"
    /\ sidx = 1
    /\ idx = 0
    /\ y = 0
    /\ y0 = 0
    /\ drawn0 = 0
    /\ bitmap = None
    /\ canvas = <<>>
    /\ warnings = <<>>
    /\ final_image = None
    /\ result = None

\* An error leaves the function at once: `?` and bail! up to the caller.
Fail(message) ==
    /\ result' = Err(message)
    /\ pc' = "returned"

\* Mutant of DrawFail: the closure's error dropped, the partial image kept.
DrawFailSalvaged ==
    /\ pc' = "image"
    /\ UNCHANGED result

\* TextBlob::new(..).ok_or(eyre!(..))? inside the closure: the closure's error
\* leaves render_ctx through `closure(&mut canvas)?` before line 46.
DrawFail == Fail("failed to construct skia text blob")

\* stops_png up to its call of render_ctx: paints, typeface, font.
EnterStopsPng ==
    /\ pc = "idle"
    /\ fn = "stops_png"
    /\ \E seed \in HashSeeds : hash_seed' = seed
    /\ IF "typeface" \in faults
       THEN Fail("failed to construct skia typeface")
       ELSE pc' = "render_ctx" /\ UNCHANGED result
    /\ UNCHANGED <<inputs, panel, sidx, idx, y, y0, drawn0, bitmap, canvas, warnings,
                   final_image, prev>>

\* error_png up to its call of render_ctx: typeface, fonts, the headline blob.
EnterErrorPng ==
    /\ pc = "idle"
    /\ fn = "error_png"
    /\ IF "typeface" \in faults
       THEN Fail("failed to construct skia typeface")
       ELSE IF ~TextBlobNew("ERROR", big_font).some
       THEN Fail("failed to construct skia text blob")
       ELSE pc' = "render_ctx" /\ UNCHANGED result
    /\ UNCHANGED <<inputs, hash_seed, panel, sidx, idx, y, y0, drawn0, bitmap, canvas, warnings,
                   final_image, prev>>

\* render_ctx from its entry to the call of the closure, and the closure's
\* statements before its first loop.
RenderCtxOpen ==
    /\ pc = "render_ctx"
    /\ IF "set_info" \in faults
       THEN /\ Fail("failed to initialize skia bitmap")
            /\ UNCHANGED <<bitmap, canvas, y>>
       ELSE /\ bitmap' = Some([width |-> layout.width, height |-> layout.height])
            /\ IF "canvas" \in faults
               THEN /\ Fail("failed to construct skia canvas")
                    /\ UNCHANGED <<canvas, y>>
               ELSE /\ UNCHANGED result
                    /\ IF fn = "stops_png"
                       THEN /\ canvas' = <<Clear>>
                            /\ y' = TOP_MARGIN
                            /\ pc' = "section"
                       ELSE /\ canvas' = <<Clear,
                                  DrawTextBlob(TextBlobNew("ERROR", big_font).val,
                                      <<ERROR_X, ERROR_HEADLINE_Y>>, black_paint)>>
                            /\ y' = ERROR_CHAIN_Y
                            /\ pc' = "chain"
    /\ UNCHANGED <<inputs, hash_seed, panel, sidx, idx, y0, drawn0, warnings,
                   final_image, prev>>

----------------------------------------------------------------------------
(* stops_png: draw_data and the closure's two loops                        *)

\* for ... in lines.into_iter().enumerate(): the body runs while items remain.
LoopNext(i, len) == IF i < len THEN "line" ELSE "separator"

\* Mutant of LineAdvance: the two advances exchanged.
LineAdvanceSwapped(cursor, i, len) ==
    IF NotLast(i, len) THEN cursor + LAST_LINE_ADVANCE ELSE cursor + LINE_ADVANCE

\* The cursor after one line of the section.
LineAdvance(cursor, i, len) ==
    IF NotLast(i, len) THEN cursor + LINE_ADVANCE ELSE cursor + LAST_LINE_ADVANCE

\* The cursor after the section's closing separator.
SectionAdvance(cursor) == cursor + SECTION_GAP

\* The divider test of draw_data.
DrawsDivider(left_x) == left_x > 0

\* Mutant of RightStart: one cursor for both loops.
RightStartShared(cursor) == cursor

\* The first cursor of the second loop of the closure.
RightStart(cursor) == TOP_MARGIN

\* draw_data from its entry to the start of its loop: the two lookups, the
\* warnings, the divider.
DrawDataResolve ==
    /\ pc = "section"
    /\ sidx <= Len(Sections(panel))
    /\ y0' = y
    /\ drawn0' = Len(canvas)
    /\ IF ~AgencyOf(section).some
       THEN /\ warnings' = Append(warnings,
                  [message |-> "missing data for expected agency",
                   agency |-> section.agency])
            /\ sidx' = sidx + 1
            /\ UNCHANGED <<pc, canvas, idx>>
       ELSE IF ~LinesOf(section).some
       THEN /\ warnings' = Append(warnings,
                  [message |-> "missing data for expected direction within agency",
                   agency |-> section.agency, direction |-> section.direction])
            /\ sidx' = sidx + 1
            /\ UNCHANGED <<pc, canvas, idx>>
       ELSE /\ canvas' = IF DrawsDivider(x1)
                         THEN Append(canvas, DrawLine(<<x1, 0>>,
                                  <<x1, layout.height>>, black_paint))
                         ELSE canvas
            /\ idx' = 0
            /\ pc' = LoopNext(0, lines_len)
            /\ UNCHANGED <<warnings, sidx>>
    /\ UNCHANGED <<inputs, hash_seed, panel, y, bitmap, final_image, result, prev>>

\* One iteration of draw_data's loop over the lines of the section.
DrawDataLine ==
    /\ pc = "line"
    /\ LET line == lines[idx + 1][1]
           upcoming == lines[idx + 1][2]
           x == x1 + LEFT_MARGIN
           line_name_blob == TextBlobNew(line.line, font)
           destination_blob == TextBlobNew(line.destination, font)
           time_text == TimeText(upcoming)
           time_blob == TextBlobNew(time_text, font)
           named == canvas \o
               <<DrawOval(line_name_blob.val, <<x, y>>, grey_paint),
                 DrawTextBlob(line_name_blob.val, <<x, y>>, black_paint)>>
           destined == Append(named,
               DrawTextBlob(destination_blob.val,
                   <<x + BoundsWidth(line_name_blob.val), y>>, black_paint))
           timed == Append(destined,
               DrawTextBlob(time_blob.val,
                   <<x2 - BoundsWidth(time_blob.val), y>>, black_paint))
       IN  IF ~line_name_blob.some
           THEN /\ DrawFail
                /\ UNCHANGED <<canvas, y, idx>>
           ELSE IF ~destination_blob.some
           THEN /\ DrawFail
                /\ canvas' = named
                /\ UNCHANGED <<y, idx>>
           ELSE IF ~time_blob.some
           THEN /\ DrawFail
                /\ canvas' = destined
                /\ UNCHANGED <<y, idx>>
           ELSE /\ canvas' = IF NotLast(idx, lines_len)
                             THEN Append(timed,
                                      DrawLine(<<x1 + SEPARATOR_INSET, y + SEPARATOR_DROP>>,
                                          <<x2 - SEPARATOR_INSET, y + SEPARATOR_DROP>>,
                                          grey_paint))
                             ELSE timed
                /\ y' = LineAdvance(y, idx, lines_len)
                /\ idx' = idx + 1
                /\ pc' = LoopNext(idx + 1, lines_len)
                /\ UNCHANGED result
    /\ UNCHANGED <<inputs, hash_seed, panel, sidx, y0, drawn0, bitmap, warnings,
                   final_image, prev>>

\* draw_data after its loop: the closing separator and the section gap.
DrawDataSeparator ==
    /\ pc = "separator"
    /\ canvas' = Append(canvas, DrawLine(<<x1, y>>, <<x2, y>>, black_paint))
    /\ y' = SectionAdvance(y)
    /\ sidx' = sidx + 1
    /\ pc' = "section"
    /\ UNCHANGED <<inputs, hash_seed, panel, idx, y0, drawn0, bitmap, warnings,
                   final_image, result, prev>>

\* The closure between its loops: the left sections are done, the right
\* panel starts with a cursor of its own.
ClosureNextPanel ==
    /\ pc = "section"
    /\ panel = "left"
    /\ sidx > Len(Sections("left"))
    /\ panel' = "right"
    /\ y' = RightStart(y)
    /\ sidx' = 1
    /\ UNCHANGED <<inputs, hash_seed, pc, idx, y0, drawn0, bitmap, canvas, warnings,
                   final_image, result, prev>>

\* The closure returns Ok(()) to render_ctx.
ClosureDone ==
    /\ pc = "section"
    /\ panel = "right"
    /\ sidx > Len(Sections("right"))
    /\ pc' = "image"
    /\ UNCHANGED <<inputs, hash_seed, panel, sidx, idx, y, y0, drawn0, bitmap, canvas,
                   warnings, final_image, result, prev>>

----------------------------------------------------------------------------
(* error_png: the closure's loop over the cause chain                      *)

\* Mutant of ChainY: the board's line rhythm.
ChainYAsBoard(cursor) == cursor + LINE_ADVANCE

\* y += 20 after each message of the chain.
ChainY(cursor) == cursor + ERROR_CHAIN_ADVANCE

\* One iteration of for e in error.chain().
ErrorChainStep ==
    /\ pc = "chain"
    /\ idx < Len(error)
    /\ LET e == error[idx + 1]
           error_blob == TextBlobNew(e, small_font)
       IN  IF ~error_blob.some
           THEN /\ DrawFail
                /\ UNCHANGED <<canvas, y, idx>>
           ELSE /\ canvas' = Append(canvas,
                      DrawTextBlob(error_blob.val, <<ERROR_X, y>>, black_paint))
                /\ y' = ChainY(y)
                /\ idx' = idx + 1
                /\ UNCHANGED <<pc, result>>
    /\ UNCHANGED <<inputs, hash_seed, panel, sidx, y0, drawn0, bitmap, warnings,
                   final_image, prev>>

\* The chain is exhausted: the closure returns Ok(()) to render_ctx.
ErrorChainDone ==
    /\ pc = "chain"
    /\ idx = Len(error)
    /\ pc' = "image"
    /\ UNCHANGED <<inputs, hash_seed, panel, sidx, idx, y, y0, drawn0, bitmap, canvas,
                   warnings, final_image, result, prev>>

----------------------------------------------------------------------------
(* render_ctx after the closure: the image, the rotation, the encoding     *)

\* bitmap.as_image(): the pixels of the bitmap that was drawn on.
AsImage(b, draws) == [width |-> b.width, height |-> b.height, draws |-> draws]

\* Mutant of RotatedInfo: the size of the first bitmap again.
RotatedInfoUnswapped == [width |-> layout.width, height |-> layout.height]

\* The size of the second bitmap, for RenderTarget::Kindle.
RotatedInfo == [width |-> layout.height, height |-> layout.width]

\* The second bitmap after translate, rotate and draw_image.
Rotated(image) ==
    AsImage(RotatedInfo,
        <<[op |-> "translate", by |-> <<layout.height, 0>>],
          [op |-> "rotate", degrees |-> QUARTER_TURN, about |-> <<0, 0>>],
          [op |-> "image", image |-> image, at |-> <<0, 0>>]>>)

RenderCtxImage ==
    /\ pc = "image"
    /\ LET image == AsImage(bitmap.val, canvas)
       IN  IF render_target = "Kindle"
           THEN IF "rotated_set_info" \in faults
                THEN /\ Fail("failed to initialize skia bitmap")
                     /\ UNCHANGED final_image
                ELSE IF "rotated_canvas" \in faults
                THEN /\ Fail("failed to construct skia canvas")
                     /\ UNCHANGED final_image
                ELSE /\ final_image' = Some(Rotated(image))
                     /\ pc' = "encode"
                     /\ UNCHANGED result
           ELSE /\ final_image' = Some(image)
                /\ pc' = "encode"
                /\ UNCHANGED result
    /\ UNCHANGED <<inputs, hash_seed, panel, sidx, idx, y, y0, drawn0, bitmap, canvas,
                   warnings, prev>>

\* final_image.encode(PNG) and the return of the bytes through the caller of
\* render_ctx.
RenderCtxEncode ==
    /\ pc = "encode"
    /\ IF "encode" \in faults
       THEN Fail("failed to encode skia image")
       ELSE /\ result' = Ok([format |-> "PNG", image |-> final_image.val])
            /\ pc' = "returned"
    /\ UNCHANGED <<inputs, hash_seed, panel, sidx, idx, y, y0, drawn0, bitmap, canvas,
                   warnings, final_image, prev>>

\* The caller takes the result; the call's bitmaps and locals are dropped.
Return ==
    /\ pc = "returned"
    /\ prev' = Some([hash_seed |-> hash_seed, canvas |-> canvas,
                   warnings |-> warnings, result |-> result])
    /\ pc' = "idle"
    /\ panel' = "left"
    /\ sidx' = 1
    /\ idx' = 0
    /\ y' = 0
    /\ y0' = 0
    /\ drawn0' = 0
    /\ bitmap' = None
    /\ canvas' = <<>>
    /\ warnings' = <<>>
    /\ final_image' = None
    /\ result' = None
    /\ hash_seed' = 0
    /\ UNCHANGED inputs

----------------------------------------------------------------------------
(* The arguments the caller may pass                                       *)

Upcoming(m) == [minutes |-> m]
Line(name, destination, upcoming) ==
    <<[line |-> name, destination |-> destination], upcoming>>
Section(agency, direction) == [agency |-> agency, direction |-> direction]
Config(w, h, l, r) ==
    [layout |-> [width |-> w, height |-> h,
                 left |-> [sections |-> l], right |-> [sections |-> r]]]

SeqsUpTo(S, n) == UNION {[1..k -> S] : k \in 0..n}

MinuteValues == {3, 11}
UpcomingLists == SeqsUpTo({Upcoming(m) : m \in MinuteValues}, MaxUpcoming)
LineNames == {"Red", ""}
Destinations == {"Richmond", ""}
Messages == {"render failed", "connection refused", ""}
Widths == {1, 2, 3, 600}
Heights == {1, 800}
Targets == {"Kindle", "Other"}
Faults == {"typeface", "set_info", "canvas", "rotated_set_info",
           "rotated_canvas", "encode"}

\* A board line of a well-formed dataset, and the first n of them.
SampleLine(i) ==
    Line(IF i % 2 = 1 THEN "Red" ELSE "Yellow", "Richmond",
         <<Upcoming(3), Upcoming(11)>>)
SampleLines(n) == [i \in 1..n |-> SampleLine(i)]

Muni == [inbound |-> SampleLines(1)]

\* Datasets for the layout: agency bart is absent, or present with each of
\* its directions absent or holding some number of lines.
BartMaps ==
    {<<>>, [south |-> SampleLines(1)]}
    \cup {[north |-> SampleLines(n)] : n \in 0..MaxLines}
    \cup {[north |-> SampleLines(n), south |-> SampleLines(1)] : n \in 0..MaxLines}
LayoutData == {[muni |-> Muni]} \cup {[muni |-> Muni, bart |-> b] : b \in BartMaps}

LeftSections ==
    SeqsUpTo({Section("bart", "north"), Section("caltrain", "north")}, MaxSections)
RightSections ==
    SeqsUpTo({Section("bart", "north"), Section("bart", "south")}, MaxSections)

Scenario(f, t, d, c, e, n, x) ==
    [fn |-> f, render_target |-> t, stop_data |-> d, config_file |-> c,
     error |-> e, no_glyphs |-> n, faults |-> x]

\* Boards of every shape on a 600 x 800 display.
LayoutScenarios ==
    {Scenario("stops_png", "Other", d, Config(600, 800, l, r), <<>>, {""}, {}) :
        d \in LayoutData, l \in LeftSections, r \in RightSections}

\* Lines of every content, alone or after a well-formed line, in either panel.
TextLines ==
    {Line(n, d, u) : n \in LineNames, d \in Destinations, u \in UpcomingLists}
TextScenarios ==
    {Scenario("stops_png", "Other", [bart |-> [north |-> ls]],
              Config(600, 800, sl, sr), <<>>, g, {}) :
        ls \in {<<t>> : t \in TextLines} \cup {<<SampleLine(1), t>> : t \in TextLines},
        sl \in {<<>>, <<Section("bart", "north")>>},
        sr \in {<<>>, <<Section("bart", "north")>>},
        g \in {{""}, {"", " min"}}}

\* Displays of every size and target, on platforms with one failing call.
PlatformScenarios ==
    {Scenario("stops_png", t, [bart |-> [north |-> SampleLines(n)]],
              Config(w, h, sl, sr), <<>>, {""}, x) :
        t \in Targets, w \in Widths, h \in Heights, n \in {0, 1},
        sl \in {<<>>, <<Section("bart", "north")>>},
        sr \in {<<>>, <<Section("bart", "north")>>},
        x \in {{}} \cup {{f} : f \in Faults}}

\* Errors with every cause chain, whatever data the caller holds.
ErrorChains == SeqsUpTo(Messages, MaxChain) \ {<<>>}
ErrorScenarios ==
    {Scenario("error_png", t, d, Config(w, 800, <<Section("bart", "north")>>, <<>>),
              e, g, x) :
        t \in Targets, w \in {600},
        d \in {<<>>, [bart |-> [north |-> <<Line("", "", <<>>)>>]]},
        e \in ErrorChains,
        g \in {{""}, {"", "ERROR"}},
        x \in {{}, {"typeface"}, {"encode"}}}

Scenarios ==
    LayoutScenarios \cup TextScenarios \cup PlatformScenarios \cup ErrorScenarios

Init ==
    /\ \E s \in Scenarios :
        /\ fn = s.fn
        /\ render_target = s.render_target
        /\ stop_data = s.stop_data
        /\ config_file = s.config_file
        /\ error = s.error
        /\ no_glyphs = s.no_glyphs
        /\ faults = s.faults
    /\ hash_seed = 0
    /\ pc = "idle"
    /\ Fresh
    /\ prev = None

Next ==
    \/ EnterStopsPng
    \/ EnterErrorPng
    \/ RenderCtxOpen
    \/ DrawDataResolve
    \/ DrawDataLine
    \/ DrawDataSeparator
    \/ ClosureNextPanel
    \/ ClosureDone
    \/ ErrorChainStep
    \/ ErrorChainDone
    \/ RenderCtxImage
    \/ RenderCtxEncode
    \/ Return

Spec == Init /\ [][Next]_vars

----------------------------------------------------------------------------
(* Properties                                                              *)

InStops == fn = "stops_png"

\* The section's agency and direction are both keys of the dataset.
Present(s) ==
    /\ s.agency \in DOMAIN stop_data
    /\ s.direction \in DOMAIN stop_data[s.agency]
DataOf(s) == stop_data[s.agency][s.direction]

\* The lines of the section being drawn, as the dataset holds them.
data == DataOf(section)

\* A section of the current panel is being drawn (it was resolved).
InSection == InStops /\ pc \in {"line", "separator"}

\* draw_data has just returned Ok from the section before sidx.
AfterSection == InStops /\ pc = "section" /\ sidx > 1
last_section == Sections(panel)[sidx - 1]
last_len == Len(DataOf(last_section))

\* The index in canvas before the first line item of the current section.
ItemsBase(first) == first + (IF x1 > 0 THEN 1 ELSE 0)

\* The height a resolved section takes: 28 when it has no line, and
\* 40 * (n - 1) + 15 + 28 with n >= 1 lines.
HeightOf(s) ==
    LET n == Len(DataOf(s))
    IN  IF n = 0 THEN 28 ELSE 40 * (n - 1) + 15 + 28

\* The cursor after a panel that holds these (resolved) sections only.
RECURSIVE CursorAfter(_)
CursorAfter(secs) ==
    IF Len(secs) = 0 THEN 38
    ELSE CursorAfter(SubSeq(secs, 1, Len(secs) - 1)) + HeightOf(secs[Len(secs)])

\* The sections of the panel before index k, the unresolved ones removed.
PresentBefore(p, k) == SelectSeq(SubSeq(Sections(p), 1, k - 1), Present)

\* C1: a section whose agency, or whose direction under a present agency, is
\* missing from stop_data returns Ok without a drawing command and without
\* moving the cursor (only a warning is emitted), so that every section
\* drawn later in the panel starts where it would start if the missing
\* sections were not configured at all.
C1_MissingSectionSkipped ==
    [][ /\ (/\ InStops /\ pc = "section"
            /\ sidx <= Len(Sections(panel))
            /\ ~Present(section))
           => /\ pc' = "section" /\ panel' = panel /\ sidx' = sidx + 1
              /\ result' = None
              /\ canvas' = canvas
              /\ y' = y
              /\ Len(warnings') = Len(warnings) + 1
        /\ InSection => y0 = CursorAfter(PresentBefore(panel, sidx))
      ]_vars

\* A resolved section of the right panel is being drawn after a section
\* whose direction is missing, the left panel having warned of an agency.
C1_Witness ==
    /\ InSection /\ pc = "line" /\ panel = "right" /\ sidx = 2
    /\ Sections("right")[1].agency \in DOMAIN stop_data
    /\ ~Present(Sections("right")[1])
    /\ Len(warnings) = 2
    /\ "direction" \notin DOMAIN warnings[1]
    /\ "direction" \in DOMAIN warnings[2]
    /\ y0 = 38

\* C2: in a resolved section of n >= 1 lines entered at y0, line i (0-based,
\* dataset order) is drawn at y0 + 40 * i, each line but the last is followed
\* by a grey separator at y + 15 and advances the cursor by 40, the last
\* advances it by 15, the closing separator is drawn at
\* y0 + 40 * (n - 1) + 15 and the cursor on exit is 28 below it.
C2_SectionRhythm ==
    /\ (InSection /\ Len(data) >= 1) =>
          LET base == ItemsBase(drawn0)
          IN  /\ \A i \in 0..(idx - 1) :
                    /\ \A k \in 1..4 : canvas[base + 5 * i + k].at[2] = y0 + 40 * i
                    /\ canvas[base + 5 * i + 2].blob.text = data[i + 1][1].line
                    /\ canvas[base + 5 * i + 3].blob.text = data[i + 1][1].destination
                    /\ i < Len(data) - 1 =>
                          canvas[base + 5 * i + 5] =
                              [op |-> "line", paint |-> "grey",
                               from |-> <<x1 + 40, y0 + 40 * i + 15>>,
                               to |-> <<x2 - 40, y0 + 40 * i + 15>>]
              /\ y = IF idx < Len(data) THEN y0 + 40 * idx
                     ELSE y0 + 40 * (Len(data) - 1) + 15
              /\ Len(canvas) = base + 5 * idx - (IF idx = Len(data) THEN 1 ELSE 0)
    /\ (AfterSection /\ Present(last_section) /\ last_len >= 1) =>
          LET bottom == y0 + 40 * (last_len - 1) + 15
          IN  /\ canvas[Len(canvas)] =
                     [op |-> "line", paint |-> "black",
                      from |-> <<x1, bottom>>, to |-> <<x2, bottom>>]
              /\ y = bottom + 28

\* The section after a 2-line first section is entered at 38 + 40 + 15 + 28.
C2_Witness ==
    /\ InSection /\ pc = "separator" /\ sidx = 2
    /\ Present(Sections(panel)[1])
    /\ Len(DataOf(Sections(panel)[1])) = 2
    /\ Len(data) = 2
    /\ y0 = 38 + 40 + 15 + 28

\* A section present in stop_data without lines is not skipped: the loop
\* body (and with it lines_len - 1) is never evaluated, no line item is
\* drawn, the closing separator is drawn at the entry cursor y0 over
\* [x1, x2], after the divider where x1 > 0, and the cursor advances by 28.
EmptySectionNotSkipped ==
    /\ (InStops /\ pc = "line") => (Len(data) >= 1 /\ idx < Len(data))
    /\ (AfterSection /\ Present(last_section) /\ last_len = 0) =>
          /\ y = y0 + 28
          /\ Len(canvas) = ItemsBase(drawn0) + 1
          /\ x1 > 0 =>
                canvas[drawn0 + 1] =
                    [op |-> "line", paint |-> "black",
                     from |-> <<x1, 0>>, to |-> <<x1, layout.height>>]
          /\ canvas[Len(canvas)] =
                 [op |-> "line", paint |-> "black",
                  from |-> <<x1, y0>>, to |-> <<x2, y0>>]

\* C10: a section that is present in stop_data with no line is not skipped:
\* the loop body (and with it lines_len - 1) is never evaluated, no line item
\* is drawn, the divider (in the right panel) and the closing separator at
\* the entry cursor y0 over [x1, x2] are drawn, and the cursor advances by 28.
C10_EmptySection ==
    /\ (InStops /\ pc = "line") => (Len(data) >= 1 /\ idx < Len(data))
    /\ (AfterSection /\ Present(last_section) /\ last_len = 0) =>
          /\ y = y0 + 28
          /\ Len(canvas) = drawn0 + (IF panel = "right" THEN 2 ELSE 1)
          /\ panel = "right" =>
                canvas[drawn0 + 1] =
                    [op |-> "line", paint |-> "black",
                     from |-> <<x1, 0>>, to |-> <<x1, layout.height>>]
          /\ canvas[Len(canvas)] =
                 [op |-> "line", paint |-> "black",
                  from |-> <<x1, y0>>, to |-> <<x2, y0>>]

\* An empty section of the right panel was drawn after a 1-line section.
EmptySectionDrawn ==
    /\ AfterSection /\ panel = "right" /\ sidx = 3
    /\ Present(last_section) /\ last_len = 0
    /\ y0 = 38 + 15 + 28
    /\ y = y0 + 28

\* The y coordinate a drawing command is anchored at.
YOf(cmd) == IF cmd.op = "line" THEN cmd.from[2] ELSE cmd.at[2]

\* The y coordinates of the commands of n lines from cursor c on: four
\* commands per line, a separator 15 below each line but the last.
RECURSIVE LineYs(_, _)
LineYs(n, c) ==
    IF n = 0 THEN <<>>
    ELSE IF n = 1 THEN <<c, c, c, c>>
    ELSE <<c, c, c, c, c + 15>> \o LineYs(n - 1, c + 40)

\* The y coordinates of everything a panel draws for these resolved
\* sections from cursor c on, computed from the panel's own sections alone.
RECURSIVE PanelYs(_, _, _)
PanelYs(secs, c, divided) ==
    IF Len(secs) = 0 THEN <<>>
    ELSE LET n == Len(DataOf(Head(secs)))
             bottom == IF n = 0 THEN c ELSE c + 40 * (n - 1) + 15
         IN  (IF divided THEN <<0>> ELSE <<>>) \o LineYs(n, c) \o <<bottom>>
             \o PanelYs(Tail(secs), bottom + 28, divided)

AllPresent(p) == PresentBefore(p, Len(Sections(p)) + 1)
RightYs == PanelYs(AllPresent("right"), 38, halfway > 0)
LeftYs == PanelYs(AllPresent("left"), 38, FALSE)

\* C3: the cursor belongs to one panel's pass: each panel starts at 38, the
\* cursor between two sections is 38 plus the heights of the sections of the
\* same panel drawn before, and what the right panel draws sits at y
\* positions determined by the right panel's sections alone, whatever the
\* left panel holds.
C3_CursorPerPanel ==
    /\ (InStops /\ pc = "section") => y = CursorAfter(PresentBefore(panel, sidx))
    /\ (InStops /\ pc = "image") =>
          /\ Len(canvas) = 1 + Len(LeftYs) + Len(RightYs)
          /\ \A k \in 1..Len(RightYs) :
                YOf(canvas[1 + Len(LeftYs) + k]) = RightYs[k]
          /\ \A k \in 1..Len(LeftYs) : YOf(canvas[1 + k]) = LeftYs[k]

\* Both panels drew two sections with lines, and the right pass is complete.
C3_Witness ==
    /\ InStops /\ pc = "image"
    /\ Len(AllPresent("left")) = 2
    /\ Len(AllPresent("right")) = 2
    /\ Len(LeftYs) > 2
    /\ Len(RightYs) > Len(LeftYs)
    /\ y = CursorAfter(AllPresent("right"))

InError == fn = "error_png"
IsOk == "ok" \in DOMAIN result /\ result.ok
IsErr == "ok" \in DOMAIN result /\ ~result.ok

\* The error board for the first k messages of the chain.
ErrorBoard(k) ==
    <<[op |-> "clear", color |-> "white"],
      [op |-> "text", paint |-> "black", at |-> <<100, 200>>,
       blob |-> [text |-> "ERROR", font |-> [style |-> "normal", size |-> 36]]]>>
    \o [j \in 1..k |->
          [op |-> "text", paint |-> "black", at |-> <<100, 250 + 20 * (j - 1)>>,
           blob |-> [text |-> error[j], font |-> [style |-> "normal", size |-> 12]]]]

\* C4: error_png draws "ERROR" at (100, 200), then message j of the chain
\* (0-based, chain order) at (100, 250 + 20 * j), and nothing else; on a
\* platform without faults and with shapeable messages it returns Ok
\* whatever stop_data the caller holds.
C4_ErrorBoard ==
    /\ (InError /\ pc = "chain") => canvas = ErrorBoard(idx)
    /\ (InError /\ pc \in {"image", "encode"}) => canvas = ErrorBoard(Len(error))
    /\ (InError /\ pc = "returned" /\ faults = {} /\ "ERROR" \notin no_glyphs
            /\ \A j \in 1..Len(error) : error[j] \notin no_glyphs) =>
          /\ IsOk
          /\ canvas = ErrorBoard(Len(error))

\* A chain of three distinct-positioned messages was rendered while the
\* caller's stop_data holds a line no normal render could draw.
C4_Witness ==
    /\ InError /\ pc = "returned" /\ IsOk
    /\ Len(error) = 3
    /\ error[1] # error[2]
    /\ "bart" \in DOMAIN stop_data
    /\ stop_data["bart"]["north"][1][1].line \in no_glyphs
    /\ Len(canvas) = 5
    /\ canvas[3].at = <<100, 250>>
    /\ canvas[4].at = <<100, 270>>
    /\ canvas[5].at = <<100, 290>>

\* C5: a successful render encodes, for RenderTarget::Other, the
\* width x height buffer that was drawn on, and for RenderTarget::Kindle a
\* second buffer of height x width that holds the first one; the buffer
\* drawn on is width x height in both cases.
C5_Dimensions ==
    (pc = "returned" /\ IsOk) =>
        LET out == result.val.image
            drawn == [width |-> layout.width, height |-> layout.height,
                      draws |-> canvas]
        IN  /\ bitmap = Some([width |-> layout.width, height |-> layout.height])
            /\ IF render_target = "Other"
               THEN out = drawn
               ELSE /\ out.width = layout.height
                    /\ out.height = layout.width
                    /\ out # drawn
                    /\ out.draws[Len(out.draws)].image = drawn

\* A 600 x 800 board encoded for the Kindle as 800 x 600.
C5_Witness ==
    /\ pc = "returned" /\ IsOk /\ InStops
    /\ render_target = "Kindle"
    /\ layout.width = 600 /\ layout.height = 800
    /\ result.val.image.width = 800 /\ result.val.image.height = 600
    /\ Len(canvas) > 1

\* "a, b, c": the first k minutes values of a line in their original order,
\* each after the first preceded by ", ".
RECURSIVE Listed(_, _)
Listed(upcoming, k) ==
    IF k = 0 THEN ""
    ELSE IF k = 1 THEN ToString(upcoming[1].minutes)
    ELSE Listed(upcoming, k - 1) \o ", " \o ToString(upcoming[k].minutes)

\* C6: the time string of every line drawn is its minutes values in their
\* original order, joined by ", " and followed by " min": nothing is sorted,
\* deduplicated or dropped ([3, 11] gives "3, 11 min").
C6_TimeString ==
    /\ Listed(<<[minutes |-> 3], [minutes |-> 11]>>, 2) \o " min" = "3, 11 min"
    /\ InSection =>
          \A i \in 0..(idx - 1) :
              LET upcoming == data[i + 1][2]
                  drawn == canvas[ItemsBase(drawn0) + 5 * i + 4]
              IN  /\ drawn.op = "text"
                  /\ drawn.blob.text = Listed(upcoming, Len(upcoming)) \o " min"

\* Two lines were drawn: the first with [3, 11], the second with the
\* unsorted [11, 3].
C6_Witness ==
    /\ InSection /\ idx = 2
    /\ data[1][2] = <<[minutes |-> 3], [minutes |-> 11]>>
    /\ data[2][2] = <<[minutes |-> 11], [minutes |-> 3]>>
    /\ canvas[ItemsBase(drawn0) + 4].blob.text = "3, 11 min"
    /\ canvas[ItemsBase(drawn0) + 9].blob.text = "11, 3 min"

\* Some text of a line of a configured, resolved section cannot be shaped.
Unshapable(ls) ==
    \E i \in 1..Len(ls) :
        \/ ls[i][1].line \in no_glyphs
        \/ ls[i][1].destination \in no_glyphs
        \/ (Listed(ls[i][2], Len(ls[i][2])) \o " min") \in no_glyphs
BoardUnshapable ==
    \E p \in {"left", "right"} : \E j \in 1..Len(Sections(p)) :
        Present(Sections(p)[j]) /\ Unshapable(DataOf(Sections(p)[j]))
ChainUnshapable == \E j \in 1..Len(error) : error[j] \in no_glyphs

DrawingComplete ==
    IF InStops THEN panel = "right" /\ sidx = Len(Sections("right")) + 1
    ELSE idx = Len(error)

\* C7: a text blob that cannot be constructed inside the closure aborts the
\* render: the call returns the error, neither the rotation nor the encoding
\* runs and no bytes are returned, although earlier lines were drawn; an
\* image is made and encoded only after the whole drawing pass (and, for the
\* Kindle, the rotation) has succeeded.
C7_DrawFailureAborts ==
    /\ (IsErr /\ result.err = "failed to construct skia text blob") =>
          pc = "returned" /\ final_image = None
    /\ (pc = "returned" /\ (IF InStops THEN BoardUnshapable ELSE ChainUnshapable)) =>
          IsErr /\ final_image = None
    /\ (pc \in {"image", "encode"} \/ final_image.some) =>
          /\ DrawingComplete
          /\ ~(IF InStops THEN BoardUnshapable ELSE ChainUnshapable)
    /\ IsOk =>
          /\ final_image.some
          /\ result.val.image = final_image.val
          /\ render_target = "Kindle" =>
                final_image.val.draws[Len(final_image.val.draws)].op = "image"

\* The second line of a right-panel section failed at its time string, after
\* the first line and two texts of the second were drawn.
C7_Witness ==
    /\ InStops /\ pc = "returned" /\ IsErr
    /\ result.err = "failed to construct skia text blob"
    /\ panel = "right" /\ idx = 1
    /\ Len(canvas) = drawn0 + 1 + 5 + 3
    /\ final_image = None

\* C8: a call of stops_png with the arguments of the previous call issues
\* the same drawing commands and warnings and returns the same result,
\* whatever the iteration order of the maps of either call.
C8_Deterministic ==
    (InStops /\ pc = "returned" /\ prev.some) =>
        /\ prev.val.canvas = canvas
        /\ prev.val.warnings = warnings
        /\ prev.val.result = result

\* Two calls on a dataset of two agencies whose maps iterate in opposite
\* orders, both returning the board.
C8_Witness ==
    /\ InStops /\ pc = "returned" /\ prev.some /\ IsOk
    /\ prev.val.hash_seed # hash_seed
    /\ Cardinality(DOMAIN stop_data) = 2
    /\ Len(canvas) > 10
    /\ Len(warnings) > 0

\* C9: a resolved section draws the vertical divider from (x1, 0) to
\* (x1, height), once, exactly when it belongs to the right panel: x1 > 0
\* holds for every right-panel section and for no left-panel section.
C9_DividerIffRight ==
    InSection =>
        /\ (panel = "right") <=> (x1 > 0)
        /\ panel = "right" =>
              /\ Len(canvas) > drawn0
              /\ canvas[drawn0 + 1] =
                     [op |-> "line", paint |-> "black",
                      from |-> <<x1, 0>>, to |-> <<x1, layout.height>>]

\* What holds of the divider on every display at least 2 wide.
C9_DividerWhenWide ==
    (InSection /\ layout.width >= 2) =>
        /\ (panel = "right") <=> (x1 > 0)
        /\ panel = "right" =>
              canvas[drawn0 + 1] =
                  [op |-> "line", paint |-> "black",
                   from |-> <<x1, 0>>, to |-> <<x1, layout.height>>]
        /\ panel = "left" => Len(canvas) = drawn0 + 5 * idx
                                 - (IF idx = Len(data) /\ idx > 0 THEN 1 ELSE 0)

====
